---- MODULE Spec2Model ----
(***************************************************************************)
(* fetchtozip: the data-acquisition-and-transform pipeline.                *)
(*                                                                         *)
(*   SpecRename     rename_columns  (services/process/process.py)          *)
(*   SpecReorder    reorder_columns (services/process/process.py)          *)
(*   SpecHttp       fetch_data_async (services/requests/http_client.py)    *)
(*   SpecExternal   _fetch_from_external_db (services/requests/fetch.py)   *)
(*   SpecPipeline   run_pipeline (services/pipelines.py)                   *)
(*   SpecExport     zip_export (services/export/_zip.py, _csv.py)          *)
(*   SpecTrigger    trigger_pipeline (api/_routes/pipeline_trigger.py)     *)
(*   SpecTasks      the task routes (api/_routes/process.py)               *)
(*                                                                         *)
(* Python values: Optional[T] is a sequence of length at most one (None is *)
(* <<>>, a value v is <<v>>); a dict is the sequence of its items in       *)
(* insertion order; a list index i (zero-based) is position i + 1.         *)
(***************************************************************************)
EXTENDS Integers, Sequences, FiniteSets, TLC

VARIABLES
    df_columns,      \* df.columns of the table handed to the transform engine
    inputs,          \* the instruction batch (List[Input])
    transform_pc,    \* "start" | "renamed" | "reordered"
    transform_out,   \* what the called function returned or raised
    \* ---- fetch_data_async
    http_pc,         \* "idle" | "gathering" | "done" | "raised"
    rate_limit,      \* number of pages requested
    page_limit,      \* records per page
    semaphore,       \* free permits of asyncio.Semaphore(CONCURRENCY_LIMIT)
    page_state,      \* page -> "pending" | "in_flight" | "returned"
    served,          \* page -> what the server did with the request
    results,         \* the list asyncio.gather returns, one entry per task
    all_records,     \* the concatenated records
    out_of_order,    \* history: a page returned before a lower-numbered one
    \* ---- _fetch_from_external_db
    ext_pc,          \* "start" | "querying" | "done" | "failed"
    db_config,       \* the ExternalDBSchema passed in
    source_rows,     \* number of rows the query selects in the database
    ext_requests,    \* the read_sql calls issued, in order
    ext_result,      \* rows of the frame returned, or the error raised
    diagnostics,     \* every string logged or placed in a raised message
    \* ---- run_pipeline
    pl_pc,           \* position in run_pipeline
    task_id,         \* argument task_id
    inputs_is_list,  \* isinstance(inputs, list)
    configuration,   \* argument configuration: None or the object passed
    DB_URL,          \* app.core.config.DB_URL
    TEMP_DIR_type,   \* type of app.core.config.TEMP_DIR: "str" | "Path"
    dir_created,     \* output_dir.mkdir(...) has run
    fetches,         \* fetches of the source that issued their page requests
    files,           \* files of the task in TEMP_DIR, by suffix
    export_call,     \* the export branch entered, "none" before
    final_output_path, \* None or the suffix of the final file
    pl_result,       \* None or the dict returned
    pl_error,        \* None or the RuntimeError raised
    failed_step,     \* history: the step in which the failure was raised
    \* ---- the exporters, called on their own
    exp_pc,          \* "off" | "start" | "returned"
    exp_callee,      \* the function called and the shape of the call
    exp_raised,      \* None or the exception the call raised
    exp_path,        \* None or the suffix of the path the call returned
    \* ---- trigger_pipeline
    tr_pc,           \* "off" | "running" | "awaiting" | "responded"
    tr_status,       \* status code of the response, 0 before it
    \* ---- the task routes of api/_routes/process.py
    Inputs_empty,    \* not Inputs
    Configures_empty, \* not Configures
    task_statuses,   \* "absent" or task_statuses[task_id]["status"]
    task_results,    \* task_results.get(task_id): None or the output path
    track_pc,        \* position of run_and_track_pipeline
    cancel_pc,       \* position of cancel_processing_task
    last_response,   \* the response of the latest request
    cancel_accepted, \* history: a cancel request was accepted
    \* ---- _fetch_from_local_db
    local_pc,        \* position in _fetch_from_local_db
    local_db_config, \* the LocalDBSchema passed in
    conn,            \* "None" | "open" | "closed"
    local_calls,     \* the sqlite3 calls made so far, in order
    local_rows,      \* number of rows cursor.fetchall() returned
    description,     \* cursor.description: "None" | "columns"
    local_pending,   \* the return or raise under way when finally runs
    local_result,    \* None or what the caller received
    local_failed_at  \* history: the statement that raised

transform_vars == <<df_columns, inputs, transform_pc, transform_out>>
http_vars == <<http_pc, rate_limit, page_limit, semaphore, page_state, served,
               results, all_records, out_of_order>>
ext_vars == <<ext_pc, db_config, source_rows, ext_requests, ext_result, diagnostics>>
pl_args == <<task_id, inputs_is_list, configuration, DB_URL, TEMP_DIR_type>>
pl_vars == <<pl_pc, pl_args, dir_created, fetches, files, export_call,
             final_output_path, pl_result, pl_error, failed_step>>
exp_vars == <<exp_pc, exp_callee, exp_raised, exp_path>>
tr_vars == <<tr_pc, tr_status>>
task_vars == <<Inputs_empty, Configures_empty, task_statuses, task_results,
               track_pc, cancel_pc, last_response, cancel_accepted>>
api_vars == <<tr_vars, task_vars>>
local_vars == <<local_pc, local_db_config, conn, local_calls, local_rows,
                description, local_pending, local_result, local_failed_at>>
vars == <<transform_vars, http_vars, ext_vars, pl_vars, exp_vars, api_vars, local_vars>>

\* ------------------------------------------------------------------ bounds
MaxCols == 3
MaxInputs == 3
MaxClampInputs == 2
MaxPages == 5
MaxPageLimit == 2
MaxPasswordLen == 2
MaxRows == 4
ChunkSize == 2

\* ------------------------------------------------------- Python helpers
None == <<>>
Some(v) == <<v>>
IsNone(o) == o = <<>>
Val(o) == o[1]

Min(a, b) == IF a <= b THEN a ELSE b
Max(a, b) == IF a >= b THEN a ELSE b

Range(s) == {s[i] : i \in 1..Len(s)}
NoDuplicates(s) == \A i, j \in 1..Len(s) : s[i] = s[j] => i = j

\* dict: items in insertion order; assigning an existing key keeps its place
DictHas(d, key) == \E i \in 1..Len(d) : d[i].k = key
DictValue(d, key) == d[CHOOSE i \in 1..Len(d) : d[i].k = key].v
DictSet(d, key, value) ==
    IF DictHas(d, key)
    THEN [i \in 1..Len(d) |-> IF d[i].k = key THEN [k |-> key, v |-> value] ELSE d[i]]
    ELSE Append(d, [k |-> key, v |-> value])

\* ------------------------------------------- components standing idle
NoOutput == [ok |-> TRUE, columns |-> <<>>, names |-> <<>>]

TransformIdle ==
    /\ df_columns = <<>>
    /\ inputs = <<>>
    /\ transform_pc = "idle"
    /\ transform_out = NoOutput

HttpIdle ==
    /\ http_pc = "off"
    /\ rate_limit = 0
    /\ page_limit = 0
    /\ semaphore = 0
    /\ page_state = <<>>
    /\ served = <<>>
    /\ results = <<>>
    /\ all_records = <<>>
    /\ out_of_order = FALSE

ExternalIdle ==
    /\ ext_pc = "off"
    /\ db_config = <<>>
    /\ source_rows = 0
    /\ ext_requests = <<>>
    /\ ext_result = <<>>
    /\ diagnostics = {}

PipelineOff ==
    /\ pl_pc = "off"
    /\ task_id = ""
    /\ inputs_is_list = TRUE
    /\ configuration = <<>>
    /\ DB_URL = ""
    /\ TEMP_DIR_type = "str"
    /\ dir_created = FALSE
    /\ fetches = 0
    /\ export_call = "none"
    /\ final_output_path = <<>>
    /\ pl_result = <<>>
    /\ pl_error = <<>>
    /\ failed_step = "none"

PipelineIdle == PipelineOff /\ files = {}

ExportIdle ==
    /\ exp_pc = "off"
    /\ exp_callee = "none"
    /\ exp_raised = <<>>
    /\ exp_path = <<>>

TriggerIdle ==
    /\ tr_pc = "off"
    /\ tr_status = 0

\* a response: the handler, the task id asked for, the status code, and what
\* the handler read of the task while it built the response
Response(handler, id, code, status, path, on_disk) ==
    [handler |-> handler, task |-> id, code |-> code,
     status |-> status, path |-> path, on_disk |-> on_disk]

NoResponse == Response("none", "none", 0, "none", <<>>, FALSE)

TasksIdle ==
    /\ Inputs_empty = TRUE
    /\ Configures_empty = TRUE
    /\ task_statuses = "absent"
    /\ task_results = <<>>
    /\ track_pc = "off"
    /\ cancel_pc = "idle"
    /\ last_response = NoResponse
    /\ cancel_accepted = FALSE

ApiIdle == TriggerIdle /\ TasksIdle

LocalIdle ==
    /\ local_pc = "off"
    /\ local_db_config = <<>>
    /\ conn = "None"
    /\ local_calls = <<>>
    /\ local_rows = 0
    /\ description = "None"
    /\ local_pending = <<>>
    /\ local_result = <<>>
    /\ local_failed_at = "none"

\* --------------------------------------------------------------- schema
ColumnNames == <<"c0", "c1", "c2", "c3", "c4", "c5", "c6", "c7">>
ColumnName(i) == ColumnNames[i + 1]              \* the i-th original column
Table(n) == [i \in 1..n |-> ColumnName(i - 1)]

NewNames == {None, Some("x"), Some("y")}
ColumnIndexes == {None} \cup {Some(i) : i \in 0..MaxCols}
Positions == {None} \cup {Some(p) : p \in (-1)..MaxCols}

RenameInputs == [name : NewNames, column : ColumnIndexes, change_order : {None}]
ReorderInputs == [name : {None}, column : ColumnIndexes, change_order : Positions]

SeqsUpTo(S, n) == UNION {[1..m -> S] : m \in 0..n}

\* ------------------------------------------------------- rename_columns
\* the name is truthy: not None and not the empty string
Truthy(name) == ~IsNone(name) /\ Val(name) # ""

rename_first_wins(rename_map, old_name, new_name) ==
    IF DictHas(rename_map, old_name) THEN rename_map
    ELSE Append(rename_map, [k |-> old_name, v |-> new_name])

rename_map_assign(rename_map, old_name, new_name) ==
    DictSet(rename_map, old_name, new_name)

RECURSIVE build_rename_map(_, _, _, _)
build_rename_map(df, ins, i, rename_map) ==
    IF i > Len(ins) THEN rename_map
    ELSE LET col_idx == ins[i].column
             new_name == ins[i].name
         IN IF ~IsNone(col_idx) /\ Truthy(new_name)
                 /\ 0 <= Val(col_idx) /\ Val(col_idx) < Len(df)
            THEN build_rename_map(df, ins, i + 1,
                     rename_map_assign(rename_map, df[Val(col_idx) + 1], Val(new_name)))
            ELSE build_rename_map(df, ins, i + 1, rename_map)

\* polars DataFrame.rename(mapping): all names change at once; a duplicate
\* resulting name raises
df_rename(df, rename_map) ==
    LET renamed == [i \in 1..Len(df) |->
                       IF DictHas(rename_map, df[i]) THEN DictValue(rename_map, df[i])
                       ELSE df[i]]
    IN IF NoDuplicates(renamed)
       THEN [ok |-> TRUE, columns |-> renamed, names |-> renamed]
       ELSE [ok |-> FALSE, columns |-> <<>>, names |-> renamed]

rename_columns(df, ins) ==
    LET rename_map == build_rename_map(df, ins, 1, <<>>)
    IN IF rename_map # <<>> THEN df_rename(df, rename_map)
       ELSE [ok |-> TRUE, columns |-> df, names |-> df]

\* ------------------------------------------------------ reorder_columns
clamp_position_unbounded(new_order, n) == Max(0, new_order)
clamp_position(new_order, n) == Max(0, Min(new_order, n - 1))

RECURSIVE build_index_to_new_order(_, _, _, _)
build_index_to_new_order(df, ins, i, index_to_new_order) ==
    IF i > Len(ins) THEN index_to_new_order
    ELSE LET col_idx == ins[i].column
             new_order == ins[i].change_order
         IN IF ~IsNone(col_idx) /\ ~IsNone(new_order)
                 /\ 0 <= Val(col_idx) /\ Val(col_idx) < Len(df)
            THEN build_index_to_new_order(df, ins, i + 1,
                     DictSet(index_to_new_order, Val(col_idx),
                             clamp_position(Val(new_order), Len(df))))
            ELSE build_index_to_new_order(df, ins, i + 1, index_to_new_order)

\* Step 1: place the explicitly reordered columns, in dict order
RECURSIVE place_explicit(_, _, _, _, _)
place_explicit(current_columns, index_to_new_order, j, final_ordered_columns, placed) ==
    IF j > Len(index_to_new_order)
    THEN [final |-> final_ordered_columns, placed |-> placed]
    ELSE LET original_idx == index_to_new_order[j].k
             target_pos == index_to_new_order[j].v
         IN IF target_pos < Len(final_ordered_columns)
            THEN place_explicit(current_columns, index_to_new_order, j + 1,
                     [final_ordered_columns EXCEPT
                         ![target_pos + 1] = Some(current_columns[original_idx + 1])],
                     placed \cup {original_idx})
            ELSE place_explicit(current_columns, index_to_new_order, j + 1,
                     final_ordered_columns, placed)

\* the inner while loop: skip the cursor over the indices already placed
RECURSIVE skip_placed(_, _, _)
skip_placed(cursor, n, placed) ==
    IF cursor < n /\ cursor \in placed THEN skip_placed(cursor + 1, n, placed)
    ELSE cursor

\* Step 2: fill the slots still None, left to right
RECURSIVE fill_remaining(_, _, _, _, _)
fill_remaining(current_columns, i, final_ordered_columns, placed, cursor) ==
    IF i >= Len(final_ordered_columns) THEN final_ordered_columns
    ELSE IF ~IsNone(final_ordered_columns[i + 1])
         THEN fill_remaining(current_columns, i + 1, final_ordered_columns, placed, cursor)
         ELSE LET c == skip_placed(cursor, Len(current_columns), placed)
              IN IF c < Len(current_columns)
                 THEN fill_remaining(current_columns, i + 1,
                          [final_ordered_columns EXCEPT ![i + 1] = Some(current_columns[c + 1])],
                          placed \cup {c}, c + 1)
                 ELSE fill_remaining(current_columns, i + 1, final_ordered_columns, placed, c)

RECURSIVE drop_none(_)
drop_none(slots) ==
    IF slots = <<>> THEN <<>>
    ELSE IF IsNone(Head(slots)) THEN drop_none(Tail(slots))
         ELSE <<Val(Head(slots))>> \o drop_none(Tail(slots))

\* final_ordered_columns after Step 1 and placed_original_indices
explicit_placements(df, index_to_new_order) ==
    place_explicit(df, index_to_new_order, 1, [i \in 1..Len(df) |-> None], {})

\* final_ordered_columns after Step 2
final_ordered_columns(df, index_to_new_order) ==
    LET step1 == explicit_placements(df, index_to_new_order)
    IN fill_remaining(df, 0, step1.final, step1.placed, 0)

reordered_columns_names(df, index_to_new_order) ==
    drop_none(final_ordered_columns(df, index_to_new_order))

\* polars DataFrame.select(names): the named columns in the given order; a
\* repeated or unknown name raises
df_select(df, names) ==
    IF NoDuplicates(names) /\ Range(names) \subseteq Range(df)
    THEN [ok |-> TRUE, columns |-> names, names |-> names]
    ELSE [ok |-> FALSE, columns |-> <<>>, names |-> names]

reorder_columns(df, ins) ==
    LET index_to_new_order == build_index_to_new_order(df, ins, 1, <<>>)
    IN IF index_to_new_order = <<>>
       THEN [ok |-> TRUE, columns |-> df, names |-> df]
       ELSE df_select(df, reordered_columns_names(df, index_to_new_order))

\* ------------------------------------- SpecRename, SpecReorder: harness
InitRename ==
    /\ df_columns \in {Table(n) : n \in 0..MaxCols}
    /\ inputs \in SeqsUpTo(RenameInputs, MaxInputs)
    /\ transform_pc = "start"
    /\ transform_out = NoOutput
    /\ HttpIdle
    /\ ExternalIdle
    /\ PipelineIdle
    /\ ExportIdle
    /\ ApiIdle
    /\ LocalIdle

InitReorder ==
    /\ df_columns \in {Table(n) : n \in 0..MaxCols}
    /\ inputs \in SeqsUpTo(ReorderInputs, MaxInputs)
    /\ transform_pc = "start"
    /\ transform_out = NoOutput
    /\ HttpIdle
    /\ ExternalIdle
    /\ PipelineIdle
    /\ ExportIdle
    /\ ApiIdle
    /\ LocalIdle

CallRename ==
    /\ transform_pc = "start"
    /\ transform_out' = rename_columns(df_columns, inputs)
    /\ transform_pc' = "renamed"
    /\ UNCHANGED <<df_columns, inputs, http_vars, ext_vars, pl_vars, exp_vars, api_vars, local_vars>>

CallReorder ==
    /\ transform_pc = "start"
    /\ transform_out' = reorder_columns(df_columns, inputs)
    /\ transform_pc' = "reordered"
    /\ UNCHANGED <<df_columns, inputs, http_vars, ext_vars, pl_vars, exp_vars, api_vars, local_vars>>

SpecRename == InitRename /\ [][CallRename]_vars

SpecReorder == InitReorder /\ [][CallReorder]_vars

\* reorder_columns on short batches over a non-empty table
InitClamp ==
    /\ df_columns \in {Table(n) : n \in 1..MaxCols}
    /\ inputs \in SeqsUpTo(ReorderInputs, MaxClampInputs)
    /\ transform_pc = "start"
    /\ transform_out = NoOutput
    /\ HttpIdle
    /\ ExternalIdle
    /\ PipelineIdle
    /\ ExportIdle
    /\ ApiIdle
    /\ LocalIdle

SpecClamp == InitClamp /\ [][CallReorder]_vars

\* ------------------------------------------------------- transform claims
\* C1 (as claimed): the output of reorder_columns holds exactly the N input
\* column names, each exactly once, for every instruction batch.
ReorderConservation ==
    transform_pc = "reordered" =>
        /\ transform_out.ok
        /\ Len(transform_out.columns) = Len(df_columns)
        /\ Range(transform_out.columns) = Range(df_columns)
        /\ NoDuplicates(transform_out.columns)

\* the instructions of the batch that rename column c (zero-based)
RenamesOf(c) ==
    {i \in 1..Len(inputs) : inputs[i].column = Some(c) /\ Truthy(inputs[i].name)}
LastOf(S) == CHOOSE i \in S : \A j \in S : j <= i

\* C6: when rename_columns returns, a column that one or more rename
\* instructions target carries the new name of the last of them in the list.
RenameLastWins ==
    (transform_pc = "renamed" /\ transform_out.ok) =>
        \A c \in 0..(Len(df_columns) - 1) :
            RenamesOf(c) # {} =>
                transform_out.columns[c + 1] = Val(inputs[LastOf(RenamesOf(c))].name)

\* C6 witness: two instructions rename the same valid column to different
\* names and the table returned carries the later name.
RenameConflictResolved ==
    /\ transform_pc = "renamed"
    /\ transform_out.ok
    /\ \E c \in 0..(Len(df_columns) - 1) : \E i, j \in RenamesOf(c) :
           /\ i < j
           /\ j = LastOf(RenamesOf(c))
           /\ inputs[i].name # inputs[j].name
           /\ transform_out.columns[c + 1] = Val(inputs[j].name)

\* C10 (as claimed): a reordered name list whose length differs from the
\* original column count makes reorder_columns fail; no table is returned.
ReorderMismatchIsFatal ==
    (transform_pc = "reordered" /\ Len(transform_out.names) # Len(df_columns)) =>
        ~transform_out.ok

\* the instruction applies: a column index inside the table and a position
\* (reorder_columns skips every other instruction)
Applies(i) ==
    /\ ~IsNone(inputs[i].column)
    /\ ~IsNone(inputs[i].change_order)
    /\ 0 <= Val(inputs[i].column)
    /\ Val(inputs[i].column) < Len(df_columns)

\* the instruction is the last one of the batch that applies to its column
Effective(i) ==
    /\ Applies(i)
    /\ \A j \in (i + 1)..Len(inputs) :
          Applies(j) => inputs[j].column # inputs[i].column

\* the effective instructions that resolve to slot s (zero-based)
ResolvingTo(s) ==
    {i \in 1..Len(inputs) :
        Effective(i) /\ clamp_position(Val(inputs[i].change_order), Len(df_columns)) = s}

\* the slots as reorder_columns has them before the empty ones are dropped
SlotsOfCall ==
    final_ordered_columns(df_columns, build_index_to_new_order(df_columns, inputs, 1, <<>>))

\* C23 (as claimed): when two or more instructions resolve to the same slot,
\* the slot holds the column of the one that comes last in the batch, also
\* when a column is targeted more than once.
SlotCollisionLastWins ==
    transform_pc = "reordered" =>
        \A s \in 0..(Len(df_columns) - 1) :
            Cardinality(ResolvingTo(s)) >= 2 =>
                SlotsOfCall[s + 1] =
                    Some(ColumnName(Val(inputs[LastOf(ResolvingTo(s))].column)))

\* index_to_new_order and the outcome of Step 1 for the call at hand
DictOfCall == build_index_to_new_order(df_columns, inputs, 1, <<>>)
Step1OfCall == explicit_placements(df_columns, DictOfCall)

\* the slots (one-based) that Step 1 left empty, left to right
EmptyAfterStep1 ==
    SelectSeq([s \in 1..Len(df_columns) |-> s],
              LAMBDA s : IsNone(Step1OfCall.final[s]))

\* the original columns (zero-based) no instruction placed, in original order
UnplacedColumns ==
    SelectSeq([c \in 1..Len(df_columns) |-> c - 1],
              LAMBDA c : ~\E i \in 1..Len(inputs) : Effective(i) /\ Val(inputs[i].column) = c)

\* C24 (as claimed): after the explicit placements every slot still empty is
\* filled, left to right, with the columns that were not explicitly placed,
\* in their original relative order, and no slot is left empty.
FillOfUnplaced ==
    (transform_pc = "reordered" /\ DictOfCall # <<>>) =>
        /\ \A s \in 1..Len(df_columns) : ~IsNone(SlotsOfCall[s])
        /\ [k \in 1..Len(EmptyAfterStep1) |-> SlotsOfCall[EmptyAfterStep1[k]]]
             = [k \in 1..Len(UnplacedColumns) |-> Some(ColumnName(UnplacedColumns[k]))]

\* no two effective instructions of the batch resolve to the same slot
NoSlotCollision ==
    \A s \in 0..(Len(df_columns) - 1) : Cardinality(ResolvingTo(s)) <= 1

\* the effective instructions whose position is at or beyond the column count
BeyondLast ==
    {i \in 1..Len(inputs) :
        Effective(i) /\ Val(inputs[i].change_order) >= Len(df_columns)}

\* C25: an instruction with a valid column index and a position at or beyond
\* the column count never raises; its position is clamped to the last valid
\* position (column count minus one) and Step 1 places the column there. When
\* it is the only instruction resolving to that slot the column stays in the
\* last slot, and without any slot collision it is the last column of the
\* returned table.
PositionClamped ==
    transform_pc = "reordered" =>
        \A i \in BeyondLast :
            LET c == Val(inputs[i].column)
                last == Len(df_columns) - 1
            IN /\ transform_out.ok
               /\ DictHas(DictOfCall, c)
               /\ DictValue(DictOfCall, c) = last
               /\ c \in Step1OfCall.placed
               /\ ResolvingTo(last) = {i} =>
                      SlotsOfCall[last + 1] = Some(ColumnName(c))
               /\ NoSlotCollision =>
                      /\ Len(transform_out.columns) = Len(df_columns)
                      /\ transform_out.columns[last + 1] = ColumnName(c)

\* a column other than the last one is sent beyond the end and ends up last
ClampedToLast ==
    /\ transform_pc = "reordered"
    /\ Len(df_columns) >= 2
    /\ \E i \in BeyondLast :
          /\ Val(inputs[i].column) < Len(df_columns) - 1
          /\ Len(transform_out.columns) = Len(df_columns)
          /\ transform_out.columns[Len(df_columns)] = ColumnName(Val(inputs[i].column))

\* ------------------------------------------------------ fetch_data_async
CONCURRENCY_LIMIT == 3

Pages == 1..rate_limit

\* the records a page holds: page_limit at most, each tagged with its page
Rows(page, n) == [k \in 1..n |-> [page |-> page, n |-> k]]

\* what can become of client.get(...) / raise_for_status() / resp.json()
Responses(page) ==
    {[kind |-> "rows", rows |-> Rows(page, n)] : n \in 1..page_limit}
    \cup {[kind |-> k, rows |-> <<>>] :
             k \in {"empty", "not_list", "timeout", "http_error"}}

\* fetch_page with the timeout handler missing: the timeout propagates
fetch_page_timeout_raises(response) ==
    CASE response.kind = "rows" -> [raised |-> FALSE, data |-> response.rows]
      [] response.kind = "timeout" -> [raised |-> TRUE, data |-> <<>>]
      [] OTHER -> [raised |-> FALSE, data |-> <<>>]

\* fetch_page, from the response on: the value the coroutine returns
fetch_page(response) ==
    CASE response.kind = "rows" -> [raised |-> FALSE, data |-> response.rows]
      [] response.kind = "empty" -> [raised |-> FALSE, data |-> <<>>]
      \* ValueError("Expected list of records per page.") -> except Exception
      [] response.kind = "not_list" -> [raised |-> FALSE, data |-> <<>>]
      \* except httpx.TimeoutException
      [] response.kind = "timeout" -> [raised |-> FALSE, data |-> <<>>]
      \* raise_for_status() and every other error -> except Exception
      [] response.kind = "http_error" -> [raised |-> FALSE, data |-> <<>>]

\* results kept in the order the coroutines finished
store_in_completion_order(res, page, data) ==
    LET free == CHOOSE i \in 1..Len(res) :
                    /\ IsNone(res[i])
                    /\ \A j \in 1..(i - 1) : ~IsNone(res[j])
    IN [res EXCEPT ![free] = Some(data)]

\* asyncio.gather: the result of a task is stored at the position of the task
gather_store(res, page, data) == [res EXCEPT ![page] = Some(data)]

\* for data in results: all_records.extend(data)
RECURSIVE extend_all(_, _)
extend_all(res, i) ==
    IF i > Len(res) THEN <<>>
    ELSE Val(res[i]) \o extend_all(res, i + 1)

InitHttp ==
    /\ TransformIdle
    /\ ExternalIdle
    /\ PipelineIdle
    /\ ExportIdle
    /\ ApiIdle
    /\ LocalIdle
    /\ http_pc = "idle"
    /\ rate_limit \in 0..MaxPages
    /\ page_limit \in 1..MaxPageLimit
    /\ semaphore = CONCURRENCY_LIMIT
    /\ page_state = [p \in Pages |-> "pending"]
    /\ served = [p \in Pages |-> None]
    /\ results = [p \in Pages |-> None]
    /\ all_records = <<>>
    /\ out_of_order = FALSE

\* tasks = [fetch_page(...) for page in range(1, rate_limit + 1)]; gather
StartGather ==
    /\ http_pc = "idle"
    /\ http_pc' = "gathering"
    /\ UNCHANGED <<rate_limit, page_limit, semaphore, page_state, served, results,
                   all_records, out_of_order, transform_vars, ext_vars, pl_vars, exp_vars, api_vars, local_vars>>

semaphore_ignored(value) == TRUE

\* asyncio.Semaphore.acquire returns at once only while the value is positive
semaphore_free(value) == value > 0

\* async with semaphore: the tasks acquire in the order they were created
Acquire(page) ==
    /\ http_pc = "gathering"
    /\ page_state[page] = "pending"
    /\ \A q \in 1..(page - 1) : page_state[q] # "pending"
    /\ semaphore_free(semaphore)
    /\ semaphore' = semaphore - 1
    /\ page_state' = [page_state EXCEPT ![page] = "in_flight"]
    /\ UNCHANGED <<http_pc, rate_limit, page_limit, served, results, all_records,
                   out_of_order, transform_vars, ext_vars, pl_vars, exp_vars, api_vars, local_vars>>

\* the request of a page ends; the semaphore is released; the task returns
PageReturns(page) ==
    /\ http_pc = "gathering"
    /\ page_state[page] = "in_flight"
    /\ \E response \in Responses(page) :
          LET ret == fetch_page(response)
          IN /\ served' = [served EXCEPT ![page] = Some(response)]
             /\ IF ret.raised
                THEN /\ http_pc' = "raised"
                     /\ results' = results
                ELSE /\ http_pc' = http_pc
                     /\ results' = gather_store(results, page, ret.data)
    /\ semaphore' = semaphore + 1
    /\ page_state' = [page_state EXCEPT ![page] = "returned"]
    /\ out_of_order' = (out_of_order \/ \E q \in 1..(page - 1) : page_state[q] # "returned")
    /\ UNCHANGED <<rate_limit, page_limit, all_records, transform_vars, ext_vars, pl_vars, exp_vars, api_vars, local_vars>>

\* results = await asyncio.gather(*tasks); extend; pl.DataFrame(...).lazy()
GatherReturns ==
    /\ http_pc = "gathering"
    /\ \A p \in Pages : page_state[p] = "returned"
    /\ all_records' = extend_all(results, 1)
    /\ http_pc' = "done"
    /\ UNCHANGED <<rate_limit, page_limit, semaphore, page_state, served, results,
                   out_of_order, transform_vars, ext_vars, pl_vars, exp_vars, api_vars, local_vars>>

NextHttp ==
    \/ StartGather
    \/ \E page \in Pages : Acquire(page)
    \/ \E page \in Pages : PageReturns(page)
    \/ GatherReturns

SpecHttp == InitHttp /\ [][NextHttp]_vars

\* ------------------------------------------------------------ HTTP claims
Succeeded(p) == ~IsNone(served[p]) /\ Val(served[p]).kind = "rows"
RecordsOf(p) == {i \in 1..Len(all_records) : all_records[i].page = p}

\* C4: whatever pages time out or fail, fetch_data_async does not raise; a
\* failed page contributes no record and a page that succeeded contributes
\* exactly the records it returned.
HttpPageDegradation ==
    /\ http_pc # "raised"
    /\ http_pc = "done" =>
          \A p \in Pages :
             IF Succeeded(p)
             THEN /\ Cardinality(RecordsOf(p)) = Len(Val(served[p]).rows)
                  /\ Range(Val(served[p]).rows) \subseteq Range(all_records)
             ELSE RecordsOf(p) = {}

\* C4 witness: page 2 of 5 timed out, the other four returned page_limit
\* records each, and the result holds 4 * page_limit records.
HttpFourOfFive ==
    /\ http_pc = "done"
    /\ rate_limit = 5
    /\ Val(served[2]).kind = "timeout"
    /\ \A p \in Pages \ {2} : Succeeded(p) /\ Len(Val(served[p]).rows) = page_limit
    /\ Len(all_records) = 4 * page_limit

\* C5: in the result the records stand in ascending page number, each page's
\* records in the order the page returned them, under every completion order.
HttpPageOrder ==
    http_pc = "done" =>
        \A i, j \in 1..Len(all_records) :
            i < j =>
                \/ all_records[i].page < all_records[j].page
                \/ /\ all_records[i].page = all_records[j].page
                   /\ all_records[i].n < all_records[j].n

\* C5 witness: some page returned before a lower-numbered one, two or more
\* pages delivered records and one page delivered none.
HttpOutOfOrderCompletion ==
    /\ http_pc = "done"
    /\ out_of_order
    /\ \E p, q \in Pages : p < q /\ Succeeded(p) /\ Succeeded(q)
    /\ \E p \in Pages : ~Succeeded(p)

InFlight == {p \in Pages : page_state[p] = "in_flight"}

\* C22: at every moment of a fetch_data_async call at most CONCURRENCY_LIMIT
\* page requests are in flight.
BoundedConcurrency ==
    http_pc # "off" => Cardinality(InFlight) <= CONCURRENCY_LIMIT

\* C22 witness: CONCURRENCY_LIMIT requests in flight and a page held back
ConcurrencyAtLimit ==
    /\ http_pc = "gathering"
    /\ Cardinality(InFlight) = CONCURRENCY_LIMIT
    /\ \E p \in Pages : page_state[p] = "pending"

\* ------------------------------------------------- external SQL reader
\* A str is the sequence of its characters; text that no field value can
\* overlap (message templates, scheme and separators) is written as one
\* element.
Contains(s, sub) ==
    \E i \in 1..(Len(s) - Len(sub) + 1) : SubSeq(s, i, i + Len(sub) - 1) = sub

\* str.replace(old, new), old non-empty: leftmost matches, not overlapping
RECURSIVE str_replace(_, _, _)
str_replace(s, old, new) ==
    IF Len(s) < Len(old) THEN s
    ELSE IF SubSeq(s, 1, Len(old)) = old
         THEN new \o str_replace(SubSeq(s, Len(old) + 1, Len(s)), old, new)
         ELSE <<Head(s)>> \o str_replace(Tail(s), old, new)

\* urllib.parse.quote_plus on the driver names used here: a space becomes +
quote_plus(s) == [i \in 1..Len(s) |-> IF s[i] = " " THEN "+" ELSE s[i]]

masked_password_display == <<"*", "*", "*", "*", "*">>

PasswordChars == {"a", "*"}
Passwords == SeqsUpTo(PasswordChars, MaxPasswordLen)
Usernames == {<<"u">>, <<"a">>}
Drivers == {None, Some(<<"O", "D", "B", "C", " ", "1", "7">>)}
Queries == {<<>>, <<"SELECT * FROM t">>, <<"SELECT * FROM t ", "ORDER BY", " id">>}
DbTypes == {"postgresql", "mssql"}

ExternalDBSchemas ==
    [db_type : DbTypes, username : Usernames, password : Passwords,
     host : {<<"h">>}, port : {<<"5432">>}, db_name : {<<"d">>},
     sql_query : Queries, driver : Drivers]

\* f"{db_type}://{username}:{password}@{host}:{port}/{db_name}"
base_conn_str(cfg) ==
    <<cfg.db_type, "://">> \o cfg.username \o <<":">> \o cfg.password \o <<"@">>
        \o cfg.host \o <<":">> \o cfg.port \o <<"/">> \o cfg.db_name

\* db_type.lower() == 'mssql'
IsMssql(cfg) == cfg.db_type = "mssql"

conn_str_of(cfg) ==
    IF ~IsNone(cfg.driver) /\ IsMssql(cfg)
    THEN base_conn_str(cfg) \o <<"?driver=">> \o quote_plus(Val(cfg.driver))
    ELSE base_conn_str(cfg)

\* conn_str.replace(password, "*****") if password else conn_str
mask_conn_str(conn_str, password) ==
    IF password # <<>> THEN str_replace(conn_str, password, masked_password_display)
    ELSE conn_str

\* what _build_external_db_connection_string logs
build_logs(cfg) ==
    (IF IsNone(cfg.driver) THEN {}
     ELSE IF IsMssql(cfg)
          THEN {<<"Added ODBC driver parameter to MSSQL connection string: ">>
                   \o Val(cfg.driver)}
          ELSE {<<"Driver ">> \o Val(cfg.driver)
                   \o <<" provided for non-MSSQL database type ", cfg.db_type>>})
    \cup {<<"DEBUG: Final ConnectorX connection string: ">>
             \o mask_conn_str(conn_str_of(cfg), cfg.password)}

_build_external_db_connection_string(cfg) ==
    [conn_str |-> conn_str_of(cfg), logs |-> build_logs(cfg)]

\* the two log lines before the query is sent
attempt_logs(cfg) ==
    {<<"Attempting to fetch data from external DB ", cfg.db_type, " at ">>
         \o cfg.host \o <<":">> \o cfg.port \o <<"/">> \o cfg.db_name,
     <<"Executing external SQL query: ">> \o cfg.sql_query}

\* the text of the exception read_sql raises
DriverErrors == {<<"driver error">>}

\* the except branch: the error log and the message of the RuntimeError
failure_diagnostics(cfg, conn_str, e) ==
    {<<"Failed to fetch data from external DB. Connection String: ">>
         \o mask_conn_str(conn_str, cfg.password) \o <<" Error: ">> \o e,
     <<"External database fetch failed: ">> \o e}

InitExternal ==
    /\ TransformIdle
    /\ HttpIdle
    /\ PipelineIdle
    /\ ExportIdle
    /\ ApiIdle
    /\ LocalIdle
    /\ ext_pc = "start"
    /\ db_config \in ExternalDBSchemas
    /\ source_rows \in 0..MaxRows
    /\ ext_requests = <<>>
    /\ ext_result = None
    /\ diagnostics = {}

\* the guard on sql_query, the connection string, the logs before the query
ExternalConnect ==
    /\ ext_pc = "start"
    /\ IF db_config.sql_query = <<>>
       THEN /\ ext_pc' = "failed"
            /\ ext_result' = Some("ValueError")
            /\ diagnostics' = {<<"ExternalDBSchema object must contain a non-empty 'sql_query'">>}
       ELSE /\ ext_pc' = "querying"
            /\ ext_result' = ext_result
            /\ diagnostics' = _build_external_db_connection_string(db_config).logs
                                 \cup attempt_logs(db_config)
    /\ UNCHANGED <<db_config, source_rows, ext_requests, transform_vars, http_vars, pl_vars, exp_vars, api_vars, local_vars>>

read_sql_calls_retry_empty(conn_str, query, rows) ==
    IF rows = 0
    THEN <<[conn_str |-> conn_str, query |-> query, rows |-> 0],
           [conn_str |-> conn_str, query |-> query, rows |-> 0]>>
    ELSE <<[conn_str |-> conn_str, query |-> query, rows |-> rows]>>

\* the read_sql calls of one _fetch_from_external_db: a single call, with
\* the query as supplied
read_sql_calls(conn_str, query, rows) ==
    <<[conn_str |-> conn_str, query |-> query, rows |-> rows]>>

\* df = read_sql(conn_str, query): it returns every row the query selects,
\* or raises
ExternalReadSql ==
    /\ ext_pc = "querying"
    /\ LET conn_str == _build_external_db_connection_string(db_config).conn_str
       IN \/ /\ ext_requests' = ext_requests \o
                     read_sql_calls(conn_str, db_config.sql_query, source_rows)
             /\ ext_result' = Some(source_rows)
             /\ ext_pc' = "done"
             /\ diagnostics' = diagnostics
          \/ \E e \in DriverErrors :
                /\ ext_requests' = ext_requests \o
                        read_sql_calls(conn_str, db_config.sql_query, 0)
                /\ ext_result' = Some("RuntimeError")
                /\ ext_pc' = "failed"
                /\ diagnostics' = diagnostics \cup failure_diagnostics(db_config, conn_str, e)
    /\ UNCHANGED <<db_config, source_rows, transform_vars, http_vars, pl_vars, exp_vars, api_vars, local_vars>>

NextExternal == ExternalConnect \/ ExternalReadSql

SpecExternal == InitExternal /\ [][NextExternal]_vars

\* ================================================= _fetch_from_local_db
LocalDBSchemas ==
    [db_file_path : {":memory:", "data.db"},
     initial_sql : {None, Some(""), Some("script")},
     sql_query : {"", "query"}]

\* what a sqlite3 call can raise, by the except clause that catches it
SqliteExceptions == {"sqlite3.Error", "Exception"}

\* except sqlite3.Error / except Exception: the RuntimeError raised instead
local_failure(e) ==
    IF e = "sqlite3.Error"
    THEN [type |-> "RuntimeError", message |-> "Local SQLite database operation failed"]
    ELSE [type |-> "RuntimeError", message |-> "Local database fetch failed"]

Raising(error) == Some([kind |-> "raise", error |-> error, rows |-> 0])
Returning(rows) == Some([kind |-> "return", error |-> <<>>, rows |-> rows])

\* finally: if conn: conn.close()
finally_close_skipped(c) == c
finally_close(c) == IF c # "None" THEN "closed" ELSE c

local_outside == <<transform_vars, http_vars, ext_vars, pl_vars, exp_vars, api_vars>>

InitLocal ==
    /\ local_db_config \in LocalDBSchemas
    /\ local_pc = "start"
    /\ conn = "None"
    /\ local_calls = <<>>
    /\ local_rows = 0
    /\ description = "None"
    /\ local_pending = None
    /\ local_result = None
    /\ local_failed_at = "none"
    /\ TransformIdle
    /\ HttpIdle
    /\ ExternalIdle
    /\ PipelineIdle
    /\ ExportIdle
    /\ ApiIdle

\* an exception inside the try block: the except clause builds the
\* RuntimeError and control passes to finally
LocalRaise(e, at) ==
    /\ local_pending' = Raising(local_failure(e))
    /\ local_failed_at' = at
    /\ local_pc' = "finally"

\* if not db_config.sql_query: raise ValueError (before the try block)
LocalCheckQuery ==
    /\ local_pc = "start"
    /\ IF local_db_config.sql_query = ""
       THEN /\ local_result' = Raising([type |-> "ValueError",
                                        message |-> "non-empty 'sql_query'"])
            /\ local_failed_at' = "sql_query check"
            /\ local_pc' = "raised"
       ELSE /\ local_pc' = "connecting"
            /\ UNCHANGED <<local_result, local_failed_at>>
    /\ UNCHANGED <<local_db_config, conn, local_calls, local_rows, description,
                   local_pending, local_outside>>

\* conn = sqlite3.connect(db_path); cursor = conn.cursor()
LocalConnect ==
    /\ local_pc = "connecting"
    /\ \/ /\ conn' = "open"
          /\ local_calls' = Append(local_calls, "connect")
          /\ local_pc' = "connected"
          /\ UNCHANGED <<local_pending, local_failed_at>>
       \/ /\ \E e \in SqliteExceptions : LocalRaise(e, "connect")
          /\ UNCHANGED <<conn, local_calls>>
    /\ UNCHANGED <<local_db_config, local_rows, description, local_result, local_outside>>

\* if db_config.initial_sql: cursor.executescript(...); conn.commit()
LocalInitialSql ==
    /\ local_pc = "connected"
    /\ IF ~IsNone(local_db_config.initial_sql) /\ Val(local_db_config.initial_sql) # ""
       THEN \/ /\ local_calls' = local_calls \o <<"executescript", "commit">>
               /\ local_pc' = "initialized"
               /\ UNCHANGED <<local_pending, local_failed_at>>
            \/ /\ local_calls' = Append(local_calls, "executescript")
               /\ \E e \in SqliteExceptions : LocalRaise(e, "initial_sql")
       ELSE /\ local_pc' = "initialized"
            /\ UNCHANGED <<local_calls, local_pending, local_failed_at>>
    /\ UNCHANGED <<local_db_config, conn, local_rows, description, local_result, local_outside>>

\* cursor.execute(db_config.sql_query); rows = cursor.fetchall()
LocalExecute ==
    /\ local_pc = "initialized"
    /\ \/ /\ local_calls' = local_calls \o <<"execute", "fetchall">>
          /\ \E n \in 0..MaxRows, d \in {"None", "columns"} :
                /\ local_rows' = (IF d = "None" THEN 0 ELSE n)
                /\ description' = d
          /\ local_pc' = "executed"
          /\ UNCHANGED <<local_pending, local_failed_at>>
       \/ /\ local_calls' = Append(local_calls, "execute")
          /\ \E e \in SqliteExceptions : LocalRaise(e, "sql_query")
          /\ UNCHANGED <<local_rows, description>>
    /\ UNCHANGED <<local_db_config, conn, local_result, local_outside>>

\* column_names from cursor.description (None after a statement that returns
\* no rows: iterating it is a TypeError), pl.DataFrame(...), return df.lazy()
LocalFrame ==
    /\ local_pc = "executed"
    /\ IF description = "None"
       THEN LocalRaise("Exception", "frame")
       ELSE /\ local_pending' = Returning(local_rows)
            /\ local_pc' = "finally"
            /\ UNCHANGED local_failed_at
    /\ UNCHANGED <<local_db_config, conn, local_calls, local_rows, description,
                   local_result, local_outside>>

\* finally: close the connection, then the return or raise completes
LocalFinally ==
    /\ local_pc = "finally"
    /\ conn' = finally_close(conn)
    /\ local_calls' = (IF conn' # conn THEN Append(local_calls, "close") ELSE local_calls)
    /\ local_result' = local_pending
    /\ local_pc' = (IF Val(local_pending).kind = "return" THEN "returned" ELSE "raised")
    /\ UNCHANGED <<local_db_config, local_rows, description, local_pending,
                   local_failed_at, local_outside>>

NextLocal ==
    \/ LocalCheckQuery
    \/ LocalConnect
    \/ LocalInitialSql
    \/ LocalExecute
    \/ LocalFrame
    \/ LocalFinally

SpecLocal == InitLocal /\ [][NextLocal]_vars

\* -------------------------------------------------- local-source claims
\* C26: on every exit path of _fetch_from_local_db taken after the connection
\* was opened (success, failure of the initialization script, failure of the
\* main query, any other exception) the connection is closed when control is
\* back with the caller.
LocalConnectionReleased ==
    (local_pc \in {"returned", "raised"} /\ "connect" \in Range(local_calls))
        => conn = "closed"

\* the main query failed on an open connection, and the caller got the error
\* with the connection closed
ReleasedAfterQueryFailure ==
    /\ local_pc = "raised"
    /\ local_failed_at = "sql_query"
    /\ "connect" \in Range(local_calls)
    /\ conn = "closed"

\* the failures a failing main query delivers to the caller
MainQueryFailures == {local_failure(e) : e \in SqliteExceptions}

\* C27 (as claimed): when the initialization script fails the main query is
\* not executed, and the failure the caller receives is of a kind that a
\* failing main query does not deliver.
InitScriptFailureDistinct ==
    (local_pc = "raised" /\ local_failed_at = "initial_sql") =>
        /\ "execute" \notin Range(local_calls)
        /\ Val(local_result).error \notin MainQueryFailures

\* ---------------------------------------------------- external claims
\* C3 (as claimed): a source of exactly k * chunk_size rows is read with
\* exactly k + 1 chunk requests, the last of them empty, and k * chunk_size
\* rows are returned.
PaginationTermination ==
    ext_pc = "done" =>
        \A k \in 0..MaxRows :
            source_rows = k * ChunkSize =>
                /\ Len(ext_requests) = k + 1
                /\ ext_requests[Len(ext_requests)].rows = 0
                /\ ext_result = Some(k * ChunkSize)

\* C7 (as claimed): with a non-empty password, no string that is logged or
\* placed in a raised message contains the raw password.
PasswordNeverInDiagnostics ==
    (ext_pc # "off" /\ db_config.password # <<>>) =>
        \A d \in diagnostics : ~Contains(d, db_config.password)

\* C16: an external source whose query selects no row is read with exactly
\* one request and a table of zero rows is returned.
EmptySourceOneRequest ==
    (ext_pc = "done" /\ source_rows = 0) =>
        /\ Len(ext_requests) = 1
        /\ ext_requests[1].rows = 0
        /\ ext_result = Some(0)

\* C16 witness: an empty source has been read
EmptySourceRead ==
    /\ ext_pc = "done"
    /\ source_rows = 0
    /\ Len(ext_requests) = 1
    /\ ext_result = Some(0)

OrderBy == <<"ORDER BY">>

\* C17 (as claimed): the query issued for an mssql source has an ordering
\* clause injected when the supplied query has none, and is the supplied query
\* with nothing injected when it has one.
MssqlOrderByInjection ==
    (ext_pc \in {"done", "failed"} /\ IsMssql(db_config)) =>
        \A i \in DOMAIN ext_requests :
            IF Contains(db_config.sql_query, OrderBy)
            THEN SubSeq(ext_requests[i].query, 1, Len(db_config.sql_query))
                    = db_config.sql_query
                 /\ ~Contains(SubSeq(ext_requests[i].query,
                                     Len(db_config.sql_query) + 1,
                                     Len(ext_requests[i].query)), OrderBy)
            ELSE Contains(ext_requests[i].query, OrderBy)

\* ----------------------------------------------------------- run_pipeline
TaskIds == {"", "  ", "t1"}
\* task_id.strip()
strip_task_id(t) == IF t = "  " THEN "" ELSE t

RawFileTypes == {None, Some(""), Some("csv"), Some("json"), Some("xlsx"),
                 Some("zip"), Some(" ZIP"), Some("pdf")}
\* str(file_type).lower().strip()
lower_strip(t) == IF t = " ZIP" THEN "zip" ELSE t

\* the object passed as configuration: file_type as given, rate_limit when
\* the object carries one (Configure declares none), db_config or None
Configurations ==
    {None} \cup {Some(c) : c \in [file_type : RawFileTypes,
                                   rate_limit : {None, Some(2)},
                                   db_config : {None, Some("db")}]}

\* file_type = getattr(configuration, 'file_type', 'csv'); a falsy value
\* falls back to "csv"
resolve_file_type(cfg) ==
    IF ~IsNone(cfg.file_type) /\ Val(cfg.file_type) # ""
    THEN lower_strip(Val(cfg.file_type))
    ELSE "csv"

\* zip_export as defined in export/_zip.py and as called in pipelines.py
zip_export_params == 3
zip_export_args == 2

\* body of export/_zip.py zip_export: the archive is written next to the
\* file, which is left in place; how == "ok" | "open_fails" | "write_fails"
zip_export(fs, how) ==
    IF "csv" \notin fs
    THEN [files |-> fs, raised |-> Some("FileNotFoundError"), path |-> None]
    ELSE CASE how = "ok" ->
                 [files |-> fs \cup {"zip"}, raised |-> None, path |-> Some("zip")]
           [] how = "open_fails" ->
                 [files |-> fs, raised |-> Some("RuntimeError"), path |-> None]
           [] how = "write_fails" ->
                 [files |-> fs \cup {"zip"}, raised |-> Some("RuntimeError"), path |-> None]

\* final_output_path = zip_export(processed_output_path, task_id)
call_zip_export(fs, how) ==
    IF zip_export_args # zip_export_params
    THEN [files |-> fs, raised |-> Some("TypeError"), path |-> None]
    ELSE zip_export(fs, how)

\* everything outside run_pipeline
pl_outside == <<transform_vars, http_vars, ext_vars, exp_vars, api_vars, local_vars>>

\* error_msg = f"Pipeline failed for task_id={task_id}: {str(e)}", as its parts
error_msg(tid, text) == <<"Pipeline failed for task_id=", tid, ": ", text>>

\* except Exception as e: raise RuntimeError(error_msg) from e
Fail(step, cause, text) ==
    /\ pl_pc' = "failed"
    /\ pl_error' = Some([type |-> "RuntimeError", task_id |-> task_id,
                         message |-> error_msg(task_id, text), cause |-> cause])
    /\ failed_step' = step

Proceed_skips_process(pc) ==
    /\ pl_pc' = IF pc = "processing" THEN "exporting" ELSE pc
    /\ pl_error' = pl_error
    /\ failed_step' = failed_step

\* no exception: control moves on
Proceed(pc) ==
    /\ pl_pc' = pc
    /\ pl_error' = pl_error
    /\ failed_step' = failed_step

InitPipeline ==
    /\ TransformIdle
    /\ HttpIdle
    /\ ExternalIdle
    /\ ExportIdle
    /\ ApiIdle
    /\ LocalIdle
    /\ pl_pc = "start"
    /\ task_id \in TaskIds
    /\ inputs_is_list \in BOOLEAN
    /\ configuration \in Configurations
    /\ DB_URL \in {"", "http://source"}
    /\ TEMP_DIR_type \in {"str", "Path"}
    /\ dir_created = FALSE
    /\ fetches = 0
    /\ files = {}
    /\ export_call = "none"
    /\ final_output_path = None
    /\ pl_result = None
    /\ pl_error = None
    /\ failed_step = "none"

\* the three checks on the arguments
Validate ==
    /\ pl_pc = "start"
    /\ IF strip_task_id(task_id) = ""
       THEN Fail("validate", "ValueError", "task_id must be a non-empty string")
       ELSE IF ~inputs_is_list
       THEN Fail("validate", "ValueError", "inputs must be a list")
       ELSE IF IsNone(configuration)
       THEN Fail("validate", "ValueError", "configuration cannot be None")
       ELSE Proceed("validated")
    /\ UNCHANGED <<pl_args, dir_created, fetches, files, export_call,
                   final_output_path, pl_result, pl_outside>>

\* output_dir.mkdir(parents=True, exist_ok=True), then the check of DB_URL
EnsureOutputDir ==
    /\ pl_pc = "validated"
    /\ dir_created' = TRUE
    /\ Proceed("dir_ready")
    /\ UNCHANGED <<pl_args, fetches, files, export_call, final_output_path,
                   pl_result, pl_outside>>

CheckDbUrl ==
    /\ pl_pc = "dir_ready"
    /\ IF DB_URL = ""
       THEN Fail("validate", "ValueError", "DB_URL must be a valid non-empty string")
       ELSE Proceed("fetching")
    /\ UNCHANGED <<pl_args, dir_created, fetches, files, export_call,
                   final_output_path, pl_result, pl_outside>>

\* run_pipeline is running on the event loop: only trigger_pipeline, an
\* async def, calls it there (the background task of process.py is a plain
\* def and runs in a worker thread)
in_event_loop == tr_pc # "off"

\* lazy_frame = fetch_data(DB_URL, rate_limit=..., page_limit=...): fetch_data
\* is asyncio.run(fetch_data_async(...)), which refuses to start under a
\* running event loop; with rate_limit None, range(1, rate_limit + 1) raises TypeError; otherwise the
\* pages are fetched and the frame is built, or building it raises
Fetch ==
    /\ pl_pc = "fetching"
    /\ IF in_event_loop
       THEN /\ Fail("fetch", "RuntimeError",
                    "asyncio.run() cannot be called from a running event loop")
            /\ fetches' = fetches
       ELSE IF IsNone(Val(configuration).rate_limit)
       THEN /\ Fail("fetch", "TypeError",
                    "unsupported operand type(s) for +: 'NoneType' and 'int'")
            /\ fetches' = fetches
       ELSE /\ fetches' = fetches + 1
            /\ \/ Proceed("processing")
               \/ Fail("fetch", "Exception", "str(e)")
    /\ UNCHANGED <<pl_args, dir_created, files, export_call, final_output_path,
                   pl_result, pl_outside>>

\* processed_output_path = process(data, task_id, inputs): collect, rename,
\* reorder, TEMP_DIR / f"{task_id}.csv", write_csv
Process ==
    /\ pl_pc = "processing"
    /\ \/ /\ Fail("transform", "RuntimeError", "Error collecting data for processing: str(e)")
          /\ files' = files
       \/ /\ Fail("transform", "DuplicateError", "str(e)")    \* df.rename raises
          /\ files' = files
       \/ IF TEMP_DIR_type = "str"
          THEN /\ Fail("transform", "TypeError",
                       "unsupported operand type(s) for /: 'str' and 'str'")
               /\ files' = files
          ELSE \/ /\ Fail("transform", "RuntimeError",
                          "Failed to save processed data to CSV: str(e)")
                  /\ files' = files
               \/ /\ files' = files \cup {"csv"}
                  /\ Proceed("exporting")
    /\ UNCHANGED <<pl_args, dir_created, fetches, export_call, final_output_path,
                   pl_result, pl_outside>>

\* the branch on file_type
Export ==
    /\ pl_pc = "exporting"
    /\ LET file_type == resolve_file_type(Val(configuration))
       IN /\ export_call' = file_type
          /\ CASE file_type = "csv" ->
                    /\ final_output_path' = Some("csv")
                    /\ files' = files
                    /\ Proceed("verifying")
               [] file_type \in {"json", "xlsx"} ->
                    \/ /\ files' = files \cup {file_type}
                       /\ final_output_path' = Some(file_type)
                       /\ Proceed("verifying")
                    \/ /\ Fail("export", "Exception", "str(e)")   \* read_csv or write fails
                       /\ files' = files
                       /\ final_output_path' = final_output_path
               [] file_type = "zip" ->
                    \E how \in {"ok", "open_fails", "write_fails"} :
                       LET r == call_zip_export(files, how)
                       IN /\ files' = r.files
                          /\ final_output_path' = r.path
                          /\ IF IsNone(r.raised)
                             THEN Proceed("verifying")
                             ELSE Fail("export", Val(r.raised), "str(e)")
               [] OTHER ->
                    /\ Fail("export", "ValueError", "Unsupported file type for export")
                    /\ files' = files
                    /\ final_output_path' = final_output_path
    /\ UNCHANGED <<pl_args, dir_created, fetches, pl_result, pl_outside>>

\* TEMP_DIR is shared with the rest of the host: between the export and the
\* check of final_output_path.exists() the file can be removed
OutputRemoved ==
    /\ pl_pc = "verifying"
    /\ ~IsNone(final_output_path)
    /\ Val(final_output_path) \in files
    /\ files' = files \ {Val(final_output_path)}
    /\ UNCHANGED <<pl_pc, pl_args, dir_created, fetches, export_call,
                   final_output_path, pl_result, pl_error, failed_step, pl_outside>>

output_exists_unchecked(path, fs) == TRUE

\* final_output_path.exists()
output_exists(path, fs) == path \in fs

\* the checks on final_output_path and the dict returned
Return ==
    /\ pl_pc = "verifying"
    /\ IF IsNone(final_output_path)
       THEN /\ Fail("export", "ValueError", "Export operation failed: no output file generated")
            /\ pl_result' = pl_result
       ELSE IF ~output_exists(Val(final_output_path), files)
       THEN /\ Fail("export", "FileNotFoundError", "Generated output file does not exist")
            /\ pl_result' = pl_result
       ELSE /\ Proceed("done")
            /\ pl_result' = Some([task_id |-> task_id,
                                  output_path |-> Val(final_output_path),
                                  file_type |-> export_call])
    /\ UNCHANGED <<pl_args, dir_created, fetches, files, export_call,
                   final_output_path, pl_outside>>

NextPipeline ==
    \/ Validate
    \/ EnsureOutputDir
    \/ CheckDbUrl
    \/ Fetch
    \/ Process
    \/ Export
    \/ OutputRemoved
    \/ Return

SpecPipeline == InitPipeline /\ [][NextPipeline]_vars

\* ------------------------------------------------ the exporters on their own
\* files a task can have in TEMP_DIR when an exporter is called
TaskFiles == {"csv", "zip", "error", "json", "xlsx"}

\* body of export/_csv.py zip_export(csv_path, task_id): read_csv, ZipFile,
\* write; except: the error marker is written and the exception re-raised;
\* finally: the CSV is removed when it exists
csv_zip_export(fs, how) ==
    IF "csv" \notin fs
    THEN [files |-> fs \cup {"error"},
          raised |-> Some("FileNotFoundError"), path |-> None]
    ELSE CASE how = "ok" ->
                 [files |-> (fs \cup {"zip"}) \ {"csv"},
                  raised |-> None, path |-> Some("zip")]
           [] how = "read_fails" ->
                 [files |-> (fs \cup {"error"}) \ {"csv"},
                  raised |-> Some("ComputeError"), path |-> None]
           [] how = "open_fails" ->
                 [files |-> (fs \cup {"error"}) \ {"csv"},
                  raised |-> Some("OSError"), path |-> None]
           [] how = "write_fails" ->
                 [files |-> (fs \cup {"zip", "error"}) \ {"csv"},
                  raised |-> Some("OSError"), path |-> None]

\* body of export/_json.py json_export(json_path, task_id): read_json,
\* write_ndjson to the same path, return it; except: the error marker is
\* written and the exception re-raised; finally: json_path is removed when it
\* exists
json_export(fs, how) ==
    IF "json" \notin fs
    THEN [files |-> fs \cup {"error"},
          raised |-> Some("FileNotFoundError"), path |-> None]
    ELSE CASE how = "ok" ->
                 [files |-> fs \ {"json"}, raised |-> None, path |-> Some("json")]
           [] how = "read_fails" ->
                 [files |-> (fs \cup {"error"}) \ {"json"},
                  raised |-> Some("ComputeError"), path |-> None]
           [] how = "write_fails" ->
                 [files |-> (fs \cup {"error"}) \ {"json"},
                  raised |-> Some("OSError"), path |-> None]

\* body of export/_xlsx.py xlsx_export(xlsx_path, task_id): the same shape
\* with read_excel and write_excel on xlsx_path
xlsx_export(fs, how) ==
    IF "xlsx" \notin fs
    THEN [files |-> fs \cup {"error"},
          raised |-> Some("FileNotFoundError"), path |-> None]
    ELSE CASE how = "ok" ->
                 [files |-> fs \ {"xlsx"}, raised |-> None, path |-> Some("xlsx")]
           [] how = "read_fails" ->
                 [files |-> (fs \cup {"error"}) \ {"xlsx"},
                  raised |-> Some("ComputeError"), path |-> None]
           [] how = "write_fails" ->
                 [files |-> (fs \cup {"error"}) \ {"xlsx"},
                  raised |-> Some("OSError"), path |-> None]

InitExport ==
    /\ TransformIdle
    /\ HttpIdle
    /\ ExternalIdle
    /\ PipelineOff
    /\ files \in SUBSET TaskFiles
    /\ exp_pc = "start"
    /\ exp_callee = "none"
    /\ exp_raised = None
    /\ exp_path = None
    /\ ApiIdle
    /\ LocalIdle

Returned(callee, r) ==
    /\ exp_pc' = "returned"
    /\ exp_callee' = callee
    /\ files' = r.files
    /\ exp_raised' = r.raised
    /\ exp_path' = r.path
    /\ UNCHANGED <<pl_pc, pl_args, dir_created, fetches, export_call,
                   final_output_path, pl_result, pl_error, failed_step,
                   transform_vars, http_vars, ext_vars, api_vars, local_vars>>

\* export/_zip.py zip_export(file_path, task_id, output_dir)
CallZipExport ==
    /\ exp_pc = "start"
    /\ \E how \in {"ok", "open_fails", "write_fails"} :
          Returned("_zip.zip_export/3", zip_export(files, how))

\* the same function, called as pipelines.py calls it
CallZipExportAsPipeline ==
    /\ exp_pc = "start"
    /\ \E how \in {"ok", "open_fails", "write_fails"} :
          Returned("_zip.zip_export/2", call_zip_export(files, how))

\* export/_csv.py zip_export(csv_path, task_id)
CallCsvZipExport ==
    /\ exp_pc = "start"
    /\ \E how \in {"ok", "read_fails", "open_fails", "write_fails"} :
          Returned("_csv.zip_export/2", csv_zip_export(files, how))

\* export/_json.py json_export(json_path, task_id)
CallJsonExport ==
    /\ exp_pc = "start"
    /\ \E how \in {"ok", "read_fails", "write_fails"} :
          Returned("json_export", json_export(files, how))

\* export/_xlsx.py xlsx_export(xlsx_path, task_id)
CallXlsxExport ==
    /\ exp_pc = "start"
    /\ \E how \in {"ok", "read_fails", "write_fails"} :
          Returned("xlsx_export", xlsx_export(files, how))

NextExport ==
    \/ CallZipExport
    \/ CallZipExportAsPipeline
    \/ CallCsvZipExport
    \/ CallJsonExport
    \/ CallXlsxExport

SpecExport == InitExport /\ [][NextExport]_vars

\* ------------------------------------------------------- trigger_pipeline
RequestTaskIds == {None, Some(""), Some("  "), Some("t1")}

\* current_task_id = request_body.task_id if request_body.task_id else str(uuid.uuid4())
current_task_id(requested) ==
    IF ~IsNone(requested) /\ Val(requested) # "" THEN Val(requested) ELSE "uuid"

\* the except clauses of trigger_pipeline, tried in order, as the status code
\* of the HTTPException raised; no class here is a subclass of an earlier one
except_chain(exc) ==
    CASE exc = "ValueError" -> 400
      [] exc = "FileNotFoundError" -> 500
      [] exc = "RuntimeError" -> 500
      [] OTHER -> 500

\* the request body has passed PipelineTriggerRequest: inputs is a list and
\* configuration a Configure
InitTrigger ==
    /\ TransformIdle
    /\ HttpIdle
    /\ ExternalIdle
    /\ ExportIdle
    /\ TasksIdle
    /\ LocalIdle
    /\ tr_pc = "running"
    /\ tr_status = 0
    /\ pl_pc = "start"
    /\ \E requested \in RequestTaskIds : task_id = current_task_id(requested)
    /\ inputs_is_list = TRUE
    /\ configuration \in Configurations \ {None}
    /\ DB_URL \in {"", "http://source"}
    /\ TEMP_DIR_type \in {"str", "Path"}
    /\ dir_created = FALSE
    /\ fetches = 0
    /\ files = {}
    /\ export_call = "none"
    /\ final_output_path = None
    /\ pl_result = None
    /\ pl_error = None
    /\ failed_step = "none"

\* result = await run_pipeline(...): run_pipeline is a plain function, so
\* the call has run to its end before anything is awaited; what it raised
\* goes through the except clauses, what it returned (a dict) is awaited,
\* which raises TypeError
TriggerRespond ==
    /\ tr_pc = "running"
    /\ pl_pc \in {"done", "failed"}
    /\ tr_pc' = "responded"
    /\ tr_status' = IF pl_pc = "failed"
                    THEN except_chain(Val(pl_error).type)
                    ELSE except_chain("TypeError")
    /\ UNCHANGED <<transform_vars, http_vars, ext_vars, pl_vars, exp_vars, task_vars, local_vars>>

NextTrigger ==
    \/ Validate
    \/ EnsureOutputDir
    \/ CheckDbUrl
    \/ Fetch
    \/ TriggerRespond

SpecTrigger == InitTrigger /\ [][NextTrigger]_vars

\* C13 (as claimed): the client of trigger_pipeline gets a 400-class response
\* for a validation failure of the run and a 500-class response for a fetch
\* or export failure.
ErrorClassMapping ==
    tr_pc = "responded" =>
        /\ failed_step = "validate" => tr_status \in 400..499
        /\ failed_step \in {"fetch", "export"} => tr_status \in 500..599

\* ------------------------------------------------- the task routes
\* the task id a request names: the task started here, or one never started
RequestedIds == {"t1", "unknown"}

InitTasks ==
    /\ TransformIdle
    /\ HttpIdle
    /\ ExternalIdle
    /\ ExportIdle
    /\ TriggerIdle
    /\ LocalIdle
    /\ Inputs_empty \in BOOLEAN
    /\ Configures_empty \in BOOLEAN
    /\ task_statuses = "absent"
    /\ task_results = None
    /\ track_pc = "off"
    /\ cancel_pc = "idle"
    /\ last_response = NoResponse
    /\ cancel_accepted = FALSE
    /\ pl_pc = "off"
    /\ task_id = "t1"
    /\ inputs_is_list \in BOOLEAN
    /\ configuration \in Configurations \ {None}
    /\ DB_URL \in {"", "http://source"}
    /\ TEMP_DIR_type \in {"str", "Path"}
    /\ dir_created = FALSE
    /\ fetches = 0
    /\ files = {}
    /\ export_call = "none"
    /\ final_output_path = None
    /\ pl_result = None
    /\ pl_error = None
    /\ failed_step = "none"

\* what no route of process.py touches
tasks_outside == <<transform_vars, http_vars, ext_vars, exp_vars, tr_vars, local_vars>>
pl_locals == <<pl_pc, pl_args, fetches, files, export_call, final_output_path,
               pl_result, pl_error, failed_step>>

\* start_processing_task: mkdir, the two checks, the registration of the
\* task, background_tasks.add_task(run_and_track_pipeline)
StartTask ==
    /\ track_pc = "off"
    /\ dir_created' = TRUE
    /\ IF Inputs_empty \/ Configures_empty
       THEN /\ last_response' = Response("start", "none", 400, "none", None, FALSE)
            /\ UNCHANGED <<task_statuses, task_results, track_pc>>
       ELSE /\ task_statuses' = "in_progress"
            /\ task_results' = None
            /\ track_pc' = "scheduled"
            /\ last_response' = Response("start", task_id, 200, "none", None, FALSE)
    /\ UNCHANGED <<Inputs_empty, Configures_empty, cancel_pc, cancel_accepted,
                   pl_locals, tasks_outside>>

\* run_and_track_pipeline enters run_pipeline(task_id, Inputs, active_config)
BackgroundStart ==
    /\ track_pc = "scheduled"
    /\ track_pc' = "running"
    /\ pl_pc' = "start"
    /\ UNCHANGED <<pl_args, dir_created, fetches, files, export_call,
                   final_output_path, pl_result, pl_error, failed_step,
                   Inputs_empty, Configures_empty, task_statuses, task_results,
                   cancel_pc, last_response, cancel_accepted, tasks_outside>>

\* task_statuses[task_id] = {"status": "completed"}
TrackCompleted ==
    /\ track_pc = "running"
    /\ pl_pc = "done"
    /\ task_statuses' = "completed"
    /\ track_pc' = "status_set"
    /\ UNCHANGED <<Inputs_empty, Configures_empty, task_results, cancel_pc,
                   last_response, cancel_accepted, pl_vars, tasks_outside>>

result_on_failure_keeps_path == Some("csv")

\* task_results[task_id] = None  # Clear result path on failure
result_on_failure == None

\* task_results[task_id] = pipeline_result.get("output_path")
TrackResult ==
    /\ track_pc = "status_set"
    /\ task_results' = Some(Val(pl_result).output_path)
    /\ track_pc' = "finished"
    /\ UNCHANGED <<Inputs_empty, Configures_empty, task_statuses, cancel_pc,
                   last_response, cancel_accepted, pl_vars, tasks_outside>>

\* except Exception as e: status failed, result cleared
TrackFailed ==
    /\ track_pc = "running"
    /\ pl_pc = "failed"
    /\ task_statuses' = "failed"
    /\ task_results' = result_on_failure
    /\ track_pc' = "finished"
    /\ UNCHANGED <<Inputs_empty, Configures_empty, cancel_pc,
                   last_response, cancel_accepted, pl_vars, tasks_outside>>

\* cancel_processing_task up to the test of current_status; the handler runs
\* on the event loop while run_and_track_pipeline runs in a worker thread
CancelCheck ==
    /\ cancel_pc = "idle"
    /\ \E id \in RequestedIds :
          IF id # task_id \/ task_statuses = "absent"
          THEN /\ last_response' = Response("cancel", id, 404, "none", None, FALSE)
               /\ cancel_pc' = cancel_pc
          ELSE IF task_statuses = "in_progress"
          THEN /\ cancel_pc' = "checked"
               /\ last_response' = last_response
          ELSE /\ last_response' = Response("cancel", id, 400, task_statuses, None, FALSE)
               /\ cancel_pc' = cancel_pc
    /\ UNCHANGED <<Inputs_empty, Configures_empty, task_statuses, task_results,
                   track_pc, cancel_accepted, pl_vars, tasks_outside>>

\* task_statuses[task_id]["status"] = "cancel_requested": written into the
\* dict that is stored under task_id at that moment
CancelWrite ==
    /\ cancel_pc = "checked"
    /\ task_statuses' = "cancel_requested"
    /\ cancel_accepted' = TRUE
    /\ cancel_pc' = "idle"
    /\ last_response' = Response("cancel", task_id, 200, "cancel_requested", None, FALSE)
    /\ UNCHANGED <<Inputs_empty, Configures_empty, task_results, track_pc,
                   pl_vars, tasks_outside>>

download_status_code_no_409(known, status, path, on_disk) ==
    IF ~known THEN 404
    ELSE IF status = "failed" THEN 500
    ELSE IF IsNone(path) THEN 500
    ELSE IF ~on_disk THEN 404
    ELSE 200

\* the checks of download_task_output, in order; 200 is the FileResponse
download_status_code(known, status, path, on_disk) ==
    IF ~known THEN 404
    ELSE IF status # "completed"
         THEN IF status = "failed" THEN 500 ELSE 409
    ELSE IF IsNone(path) THEN 500
    ELSE IF ~on_disk THEN 404
    ELSE 200

\* download_task_output(task_id)
Download ==
    /\ \E id \in RequestedIds :
          LET known == id = task_id /\ task_statuses # "absent"
              status == IF known THEN task_statuses ELSE "absent"
              path == IF known THEN task_results ELSE None
              on_disk == ~IsNone(path) /\ Val(path) \in files
          IN last_response' = Response("download", id,
                                  download_status_code(known, status, path, on_disk),
                                  status, path, on_disk)
    /\ UNCHANGED <<Inputs_empty, Configures_empty, task_statuses, task_results,
                   track_pc, cancel_pc, cancel_accepted, pl_vars, tasks_outside>>

\* TEMP_DIR is shared with the rest of the host: the output of a finished
\* task can be removed before it is downloaded
OutputLost ==
    /\ track_pc = "finished"
    /\ ~IsNone(task_results)
    /\ Val(task_results) \in files
    /\ files' = files \ {Val(task_results)}
    /\ UNCHANGED <<pl_pc, pl_args, dir_created, fetches, export_call,
                   final_output_path, pl_result, pl_error, failed_step,
                   task_vars, tasks_outside>>

NextTasks ==
    \/ StartTask
    \/ BackgroundStart
    \/ NextPipeline
    \/ TrackCompleted
    \/ TrackResult
    \/ TrackFailed
    \/ CancelCheck
    \/ CancelWrite
    \/ Download
    \/ OutputLost

SpecTasks == InitTasks /\ [][NextTasks]_vars

\* ------------------------------------------------------------ task claims
\* C18: run_pipeline produces a result only when validation, fetch, transform
\* and export all succeeded, a result is recorded for the task only then, and
\* no result is recorded for a task that is in progress or has failed.
TaskResultOnlyOnSuccess ==
    /\ ~IsNone(pl_result) =>
          (pl_pc = "done" /\ failed_step = "none" /\ fetches > 0
              /\ ~IsNone(final_output_path))
    /\ ~IsNone(task_results) =>
          (pl_pc = "done" /\ Val(task_results) = Val(pl_result).output_path)
    /\ task_statuses \in {"in_progress", "failed"} => IsNone(task_results)

\* C18 witness: the path of a completed task has been recorded
TaskResultRecorded ==
    /\ task_statuses = "completed"
    /\ pl_pc = "done"
    /\ task_results = Some(Val(pl_result).output_path)

DownloadGating ==
    last_response.handler = "download" =>
        /\ last_response.code = 200 =>
              /\ last_response.status = "completed"
              /\ ~IsNone(last_response.path)
              /\ last_response.on_disk
        /\ last_response.status = "absent" => last_response.code = 404
        /\ last_response.status = "failed" => last_response.code = 500
        /\ last_response.status \in {"in_progress", "cancel_requested"} =>
              last_response.code = 409

\* C20 witness: the file of a completed task has been served
DownloadServed ==
    /\ last_response.handler = "download"
    /\ last_response.code = 200
    /\ task_statuses = "completed"
    /\ Val(task_results) \in files

\* C28 (as claimed): under every interleaving of run_and_track_pipeline with
\* the requests, a task whose status is completed has its output path
\* recorded, and no download request sees status completed with no path.
CompletedImpliesResult ==
    /\ task_statuses = "completed" => ~IsNone(task_results)
    /\ (last_response.handler = "download" /\ last_response.status = "completed")
          => ~IsNone(last_response.path)

\* ---------------------------------------------------------- export claims
\* C2 (as claimed): once the zip export that run_pipeline calls (the one
\* imported from export/_zip.py) has returned or raised, the intermediate
\* CSV of the task is gone.
ZipCleanup ==
    (exp_pc = "returned" /\ exp_callee \in {"_zip.zip_export/3", "_zip.zip_export/2"}) =>
        "csv" \notin files

\* C14 (as claimed): when zipping the output of a task fails, the error
\* marker of the task is written and the error is raised.
ExportFailureMarked ==
    (exp_pc = "returned"
        /\ exp_raised \in {Some("RuntimeError"), Some("OSError"), Some("ComputeError")}) =>
        "error" \in files

\* C29 (as claimed): whenever json_export, xlsx_export or the zip_export of
\* export/_csv.py returns a path without raising, the file at that path
\* exists when the call returns.
ExporterResultExists ==
    (exp_pc = "returned"
        /\ exp_callee \in {"json_export", "xlsx_export", "_csv.zip_export/2"}
        /\ IsNone(exp_raised)
        /\ ~IsNone(exp_path)) =>
        Val(exp_path) \in files

\* -------------------------------------------------------- pipeline claims
\* C11: run_pipeline returns its result only with the final output file on
\* disk; when the path the export reported has no file behind it at the
\* check, the run has failed and no result is returned.
SuccessImpliesFile ==
    /\ pl_pc = "done" =>
          /\ ~IsNone(pl_result)
          /\ Val(pl_result).output_path \in files
    /\ (pl_pc \in {"done", "failed"} /\ ~IsNone(final_output_path)
            /\ Val(final_output_path) \notin files) =>
          (pl_pc = "failed" /\ IsNone(pl_result))

\* C11 witness: a run that returned its result, the file being there
SuccessWithFile ==
    /\ pl_pc = "done"
    /\ ~IsNone(pl_result)
    /\ Val(pl_result).output_path \in files
    /\ Val(pl_result).task_id = task_id

PipelineSteps == {"fetch", "transform", "export"}

\* C12 (as claimed): a failure raised in the fetch, transform or export step
\* reaches the caller as one pipeline failure that carries the task id and
\* names the failing step, and no result is returned.
FailureWrapping ==
    (pl_pc = "failed" /\ failed_step \in PipelineSteps) =>
        /\ ~IsNone(pl_error)
        /\ Val(pl_error).type = "RuntimeError"
        /\ Val(pl_error).task_id = task_id
        /\ \E i \in DOMAIN Val(pl_error).message :
              Val(pl_error).message[i] = failed_step
        /\ IsNone(pl_result)

\* C15 (as claimed): once a json, xlsx or zip export has produced its
\* artifact or has been aborted by an error, the intermediate CSV written
\* by process() is gone.
IntermediateCleanup ==
    (pl_pc \in {"done", "failed"} /\ export_call \in {"json", "xlsx", "zip"}) =>
        "csv" \notin files

SupportedFileTypes == {"csv", "json", "xlsx", "zip"}

\* the step run_pipeline is in, and the place of the step in the order
StepOf(pc) ==
    CASE pc \in {"start", "validated", "dir_ready"} -> "validate"
      [] pc = "fetching" -> "fetch"
      [] pc = "processing" -> "transform"
      [] pc \in {"exporting", "verifying"} -> "export"
      [] pc = "done" -> "succeeded"
      [] pc = "failed" -> "failed"
      [] OTHER -> "off"

StepRank(step) ==
    CASE step = "validate" -> 1
      [] step = "fetch" -> 2
      [] step = "transform" -> 3
      [] step = "export" -> 4
      [] step = "succeeded" -> 5
      [] OTHER -> 0

\* C21: run_pipeline goes through validate, fetch, transform, export in that
\* order; each move is within a step, to the next step, or to failed, which
\* is never left; a step is entered only from the step before it, the fetch
\* having been made before transform starts; succeeded is entered only from
\* export, and never left.
PipelineStepOrder ==
    [][(pl_pc # "off" /\ pl_pc' # pl_pc) =>
          /\ pl_pc \notin {"done", "failed"}
          /\ \/ pl_pc' = "failed" /\ failed_step' = StepOf(pl_pc)
             \/ StepRank(StepOf(pl_pc')) = StepRank(StepOf(pl_pc))
             \/ StepRank(StepOf(pl_pc')) = StepRank(StepOf(pl_pc)) + 1
          /\ pl_pc' = "processing" => fetches' > 0
          /\ pl_pc' = "exporting" => "csv" \in files'
          /\ pl_pc' = "done" => (pl_pc = "verifying" /\ failed_step' = "none")]_vars

\* C21 witness: a run that went through every step and succeeded
AllStepsSucceeded ==
    /\ pl_pc = "done"
    /\ fetches > 0
    /\ export_call \in SupportedFileTypes
    /\ failed_step = "none"

\* the configuration passed to run_pipeline carries no rate_limit
NoPageBounds ==
    /\ ~IsNone(configuration)
    /\ IsNone(Val(configuration).rate_limit)

\* C30 (as claimed): with a configuration that carries no rate_limit or
\* page_limit, the fetch step, once run, has requested its pages with the
\* defaults of fetch_data and has not failed on the missing values.
DefaultPageBounds ==
    (NoPageBounds
        /\ (failed_step = "fetch"
               \/ StepOf(pl_pc) \in {"transform", "export", "succeeded"})) =>
        /\ fetches > 0
        /\ ~(failed_step = "fetch" /\ Val(pl_error).cause = "TypeError")


UnrecognisedFormat ==
    /\ ~IsNone(configuration)
    /\ ~IsNone(Val(configuration).file_type)
    /\ Val(Val(configuration).file_type) # ""
    /\ lower_strip(Val(Val(configuration).file_type)) \notin SupportedFileTypes

\* C8 (as claimed): with a present but unrecognised format the run fails
\* with a validation error, no fetch is performed and no file is written;
\* the format is not replaced by a default.
UnsupportedFormatBeforeIO ==
    (pl_pc # "off" /\ UnrecognisedFormat) =>
        /\ fetches = 0
        /\ files = {}
        /\ pl_pc # "done"
        /\ export_call \notin SupportedFileTypes

InvalidRequest ==
    \/ strip_task_id(task_id) = ""
    \/ ~inputs_is_list
    \/ IsNone(configuration)
    \/ IsNone(Val(configuration).db_config)
    \/ DB_URL = ""

NoIO == ~dir_created /\ fetches = 0 /\ files = {}

\* C9 (as claimed): a blank task id, a non-list batch, an absent
\* configuration, an absent or invalid source descriptor are rejected, and
\* in a rejected run no directory is created, nothing fetched, no file
\* written.
ValidationBeforeIO ==
    (pl_pc # "off" /\ InvalidRequest) => (NoIO /\ pl_pc # "done")

====
